---------------------------- MODULE Spec2Model ----------------------------
(***************************************************************************)
(* Model of the options-pricer crates: the Call / Put contracts, the       *)
(* Black-Scholes pricer, the Greeks and the convertible-bond pricer.       *)
(*                                                                         *)
(* An f64 is a record [k, s, v]:                                           *)
(*   k = "fin"  : the value s * v / ONE (sign-magnitude fixed point with   *)
(*                six decimals; v = 0 with s = -1 is the negative zero)    *)
(*   k = "tiny" : a non-zero value of sign s smaller in magnitude than the *)
(*                spacing of doubles near 1 (what exp, cdf and pdf return  *)
(*                in their far tails before they underflow to 0)           *)
(*   k = "inf"  : s * infinity                                             *)
(*   k = "nan"  : NaN                                                      *)
(* Arithmetic follows IEEE 754 on the special values and rounds finite     *)
(* results toward zero to the six decimals, except that a non-zero result  *)
(* is never rounded to zero (a double keeps it non-zero).                  *)
(***************************************************************************)
EXTENDS Integers, Sequences, FiniteSets, TLC

ONE == 1000 * 1000

HALF == ONE \div 2

Abs(i) == IF i < 0 THEN -i ELSE i

Max(a, b) == IF a < b THEN b ELSE a

Min(a, b) == IF a < b THEN a ELSE b

NaN == [k |-> "nan", s |-> 1, v |-> 0]

Inf(sg) == [k |-> "inf", s |-> sg, v |-> 0]

Tiny(sg) == [k |-> "tiny", s |-> sg, v |-> 0]

Zero(sg) == [k |-> "fin", s |-> sg, v |-> 0]

Mag(sg, m) == [k |-> "fin", s |-> sg, v |-> m]

Fin(i) == [k |-> "fin", s |-> IF i < 0 THEN -1 ELSE 1, v |-> Abs(i)]

Val(x) == x.s * x.v

IsNaN(x) == x.k = "nan"

IsZero(x) == x.k = "fin" /\ x.v = 0

IsFinite(x) == x.k \in {"fin", "tiny"}

(***************************************************************************)
(* Magnitude arithmetic on naturals below 2^31 without overflow.           *)
(***************************************************************************)
\* floor(a * b / ONE)
MulMag(a, b) ==
    LET a1 == a \div 1000
        a0 == a % 1000
        b1 == b \div 1000
        b0 == b % 1000
    IN  a1 * b1 + ((a1 * b0 + a0 * b1 + ((a0 * b0) \div 1000)) \div 1000)

RECURSIVE DivDigits(_, _, _, _)
\* long division: n more decimal digits of r / b appended to q
DivDigits(q, r, b, n) ==
    IF n = 0 THEN q
    ELSE DivDigits(q * 10 + ((r * 10) \div b), (r * 10) % b, b, n - 1)

\* floor(a * ONE / b), b > 0
DivMag(a, b) == DivDigits(a \div b, a % b, b, 6)

RECURSIVE SqrtNewton(_, _)
\* Newton's iteration from above: floor(sqrt(a * ONE)), for y * y >= a * ONE
SqrtNewton(a, y) ==
    LET z == (y + DivMag(a, y)) \div 2
    IN  IF z >= y THEN y ELSE SqrtNewton(a, z)

SqrtMag(a) == IF a = 0 THEN 0 ELSE SqrtNewton(a, Min(Max(a, ONE), 46341 * 1000))

(***************************************************************************)
(* IEEE 754 arithmetic.                                                    *)
(***************************************************************************)
FNeg(x) == IF IsNaN(x) THEN x ELSE [x EXCEPT !.s = -x.s]

FMul(x, y) ==
    LET sg == x.s * y.s
    IN  CASE IsNaN(x) \/ IsNaN(y) -> NaN
          [] x.k = "inf" \/ y.k = "inf" ->
                IF IsZero(x) \/ IsZero(y) THEN NaN ELSE Inf(sg)
          [] IsZero(x) \/ IsZero(y) -> Zero(sg)
          [] x.k = "tiny" \/ y.k = "tiny" -> Tiny(sg)
          [] OTHER -> Mag(sg, Max(1, MulMag(x.v, y.v)))

\* a finite value over a tiny one is beyond the fixed-point range: no case
FDiv(x, y) ==
    LET sg == x.s * y.s
    IN  CASE IsNaN(x) \/ IsNaN(y) -> NaN
          [] x.k = "inf" -> IF y.k = "inf" THEN NaN ELSE Inf(sg)
          [] y.k = "inf" -> Zero(sg)
          [] IsZero(y) -> IF IsZero(x) THEN NaN ELSE Inf(sg)
          [] IsZero(x) -> Zero(sg)
          [] x.k = "tiny" /\ y.k = "fin" -> Tiny(sg)
          [] x.k = "fin" /\ y.k = "fin" -> Mag(sg, Max(1, DivMag(x.v, y.v)))

\* two tiny values of opposite sign cancel to a value far below the resolution,
\* of unknown sign: it is taken as +0
FAdd(x, y) ==
    CASE IsNaN(x) \/ IsNaN(y) -> NaN
      [] x.k = "inf" /\ y.k = "inf" -> IF x.s = y.s THEN x ELSE NaN
      [] x.k = "inf" -> x
      [] y.k = "inf" -> y
      [] x.k = "tiny" /\ y.k = "tiny" -> IF x.s = y.s THEN x ELSE Zero(1)
      [] x.k = "tiny" /\ y.k = "fin" -> IF y.v = 0 THEN x ELSE y
      [] x.k = "fin" /\ y.k = "tiny" -> IF x.v = 0 THEN y ELSE x
      [] x.k = "fin" /\ y.k = "fin" ->
            IF Val(x) + Val(y) = 0
            THEN (IF x.v = 0 /\ x.s = -1 /\ y.s = -1 THEN Zero(-1) ELSE Zero(1))
            ELSE Fin(Val(x) + Val(y))

FSub(x, y) == FAdd(x, FNeg(y))

\* the position of x on the extended real line, for comparisons
Key(x) ==
    CASE x.k = "inf" -> x.s * 2147483647
      [] x.k = "tiny" -> 0
      [] OTHER -> x.s * x.v

Sub(x) == IF x.k = "tiny" THEN x.s ELSE 0

FLt(x, y) ==
    /\ ~IsNaN(x)
    /\ ~IsNaN(y)
    /\ \/ Key(x) < Key(y)
       \/ Key(x) = Key(y) /\ Sub(x) < Sub(y)

FLe(x, y) ==
    /\ ~IsNaN(x)
    /\ ~IsNaN(y)
    /\ \/ Key(x) < Key(y)
       \/ Key(x) = Key(y) /\ Sub(x) <= Sub(y)

\* f64::sqrt
FSqrt(x) ==
    CASE IsNaN(x) -> NaN
      [] IsZero(x) -> x
      [] x.s = -1 -> NaN
      [] x.k = "inf" -> x
      [] x.k = "fin" -> Mag(1, Max(1, SqrtMag(x.v)))


(***************************************************************************)
(* The elementary functions of f64 and of statrs' standard normal          *)
(* distribution, computed to the six decimals of the representation.       *)
(***************************************************************************)
SMul(a, b) == (IF (a < 0) = (b < 0) THEN 1 ELSE -1) * MulMag(Abs(a), Abs(b))

LN2 == 693147

RECURSIVE LnReduce(_, _)
\* m = m' * 2^k with m' in [0.75, 1.5): the pair <<m', k>>
LnReduce(m, k) ==
    IF m >= 3 * HALF THEN LnReduce(m \div 2, k + 1)
    ELSE IF 4 * m < 3 * ONE THEN LnReduce(m * 2, k - 1)
    ELSE <<m, k>>

\* ln(m') = 2 atanh(u), u = (m' - 1) / (m' + 1)
LnSeries(m) ==
    LET d  == m - ONE
        u  == (IF d < 0 THEN -1 ELSE 1) * DivMag(Abs(d), m + ONE)
        u2 == MulMag(Abs(u), Abs(u))
        p  == ONE + MulMag(u2, (ONE \div 3) + MulMag(u2, (ONE \div 5)
                  + MulMag(u2, (ONE \div 7) + MulMag(u2, ONE \div 9))))
    IN  2 * SMul(u, p)

\* ln of the magnitude m > 0, as a signed fixed-point number
LnFix(m) ==
    LET mk == LnReduce(m, 0)
    IN  LnSeries(mk[1]) + mk[2] * LN2

\* f64::ln
FLn(x) ==
    CASE IsNaN(x) -> NaN
      [] IsZero(x) -> Inf(-1)
      [] x.s = -1 -> NaN
      [] x.k = "inf" -> x
      [] x.k = "fin" -> Fin(LnFix(x.v))

\* e^n for n = -14 .. 7, at index n + 15
EXPN == << 1, 2, 6, 17, 45, 123, 335, 912, 2479, 6738, 18316, 49787, 135335,
           367879, 1000000, 2718282, 7389056, 20085537, 54598150, 148413159,
           403428793, 1096633158 >>

RECURSIVE ExpSeries(_, _)
\* the Taylor series of e^f in Horner form, 0 <= f < 1
ExpSeries(f, j) ==
    IF j > 12 THEN ONE
    ELSE ONE + (MulMag(f, ExpSeries(f, j + 1)) \div j)

\* e^a for -14 <= a < 8, a signed fixed-point number
ExpFix(a) ==
    LET n == a \div ONE
        f == a - n * ONE
    IN  MulMag(EXPN[n + 15], ExpSeries(f, 1))

\* f64::exp: 0 below -745.2 (underflow), infinite above 709.8 (overflow)
FExp(x) ==
    CASE IsNaN(x) -> NaN
      [] x.k = "inf" -> IF x.s = 1 THEN x ELSE Zero(1)
      [] x.k = "tiny" \/ IsZero(x) -> Fin(ONE)
      [] x.k = "fin" /\ x.v # 0 ->
            LET a == Val(x)
            IN  CASE a >= 709 * ONE + 800000 -> Inf(1)
                  [] a <= -(745 * ONE + 200000) -> Zero(1)
                  [] a > -(745 * ONE + 200000) /\ a <= -(36 * ONE + 800000) -> Tiny(1)
                  [] a > -(36 * ONE + 800000) /\ a < -14 * ONE -> Fin(1)
                  [] a >= -14 * ONE /\ a < 8 * ONE -> Fin(Max(1, ExpFix(a)))

INV_SQRT_2PI == 398942

\* statrs Normal(0,1).pdf(x) = exp(-0.5 * x * x) / sqrt(2 pi)
FPdf(x) ==
    CASE IsNaN(x) -> NaN
      [] x.k = "inf" -> Zero(1)
      [] x.k = "fin" /\ x.v >= 39 * ONE -> Zero(1)
      [] OTHER -> FMul(FExp(FMul(Fin(-HALF), FMul(x, x))), Fin(INV_SQRT_2PI))

\* the upper tail 1 - cdf(a) for 0 <= a < 8.3, after Abramowitz-Stegun 26.2.17
CdfTail(a) ==
    LET t  == DivMag(ONE, ONE + MulMag(231642, a))
        q  == SMul(t, 319382 + SMul(t, -356564 + SMul(t, 1781478
                  + SMul(t, -1821256 + SMul(t, 1330274)))))
        ph == FPdf(Fin(a))
    IN  IF a = 0 THEN HALF
        ELSE IF ph.k = "fin" THEN Min(HALF, Max(1, MulMag(ph.v, q))) ELSE 1

\* statrs Normal(0,1).cdf(x) = 0.5 * erfc(-x / sqrt 2): exactly 1 once the tail
\* is below half an ulp of 1, exactly 0 once erfc underflows
FCdf(x) ==
    CASE IsNaN(x) -> NaN
      [] x.k = "inf" -> IF x.s = 1 THEN Fin(ONE) ELSE Zero(1)
      [] x.k = "tiny" \/ IsZero(x) -> Fin(HALF)
      [] x.k = "fin" /\ x.v # 0 ->
            LET a == Val(x)
            IN  CASE a >= 8 * ONE + 300000 -> Fin(ONE)
                  [] a <= -(38 * ONE + 500000) -> Zero(1)
                  [] a > -(38 * ONE + 500000) /\ a <= -(8 * ONE + 300000) -> Tiny(1)
                  [] a > -(8 * ONE + 300000) /\ a < 0 -> Fin(CdfTail(-a))
                  [] a > 0 /\ a < 8 * ONE + 300000 -> Fin(ONE - CdfTail(a))


(***************************************************************************)
(* Option<f64>: <<>> is None, <<x>> is Some(x).                            *)
(***************************************************************************)
None == << >>

Some(x) == << x >>

unwrap_or(q, d) == IF q = None THEN d ELSE q[1]

\* u32 as f64
U32ToF64(n) == Fin(n * ONE)

(***************************************************************************)
(* options/src/black_scholes.rs                                            *)
(***************************************************************************)
d_plus(t, r, q, sigma, spot, strike) ==
    LET numerator ==
            FAdd(FLn(FDiv(spot, strike)),
                 FMul(FAdd(FSub(r, unwrap_or(q, Zero(1))),
                           FMul(FMul(Fin(HALF), sigma), sigma)), t))
        denominator == FMul(sigma, FSqrt(t))
    IN  FDiv(numerator, denominator)

d_minus(t, r, q, sigma, spot, strike) ==
    LET numerator ==
            FAdd(FLn(FDiv(spot, strike)),
                 FMul(FSub(FSub(r, unwrap_or(q, Zero(1))),
                           FMul(FMul(Fin(HALF), sigma), sigma)), t))
        denominator == FMul(sigma, FSqrt(t))
    IN  FDiv(numerator, denominator)

\* the Call arm of black_scholes_price
CallPrice(call) ==
    LET d1 == d_plus(call.time_to_maturity, call.risk_free_rate, call.dividend_yield,
                     call.volatility, call.spot_price, call.strike_price)
        d2 == d_minus(call.time_to_maturity, call.risk_free_rate, call.dividend_yield,
                      call.volatility, call.spot_price, call.strike_price)
        nd1 == FCdf(d1)
        nd2 == FCdf(d2)
    IN  FSub(FMul(FMul(call.spot_price,
                       FExp(FMul(FNeg(unwrap_or(call.dividend_yield, Zero(1))),
                                 call.time_to_maturity))), nd1),
             FMul(FMul(call.strike_price,
                       FExp(FMul(FNeg(call.risk_free_rate), call.time_to_maturity))), nd2))

\* the Put arm without the dividend discount on the spot leg
PutPrice_undiscounted(put) ==
    LET d1 == d_plus(put.time_to_maturity, put.risk_free_rate, put.dividend_yield,
                     put.volatility, put.spot_price, put.strike_price)
        d2 == d_minus(put.time_to_maturity, put.risk_free_rate, put.dividend_yield,
                      put.volatility, put.spot_price, put.strike_price)
        n_neg_d1 == FCdf(FNeg(d1))
        n_neg_d2 == FCdf(FNeg(d2))
    IN  FSub(FMul(FMul(put.strike_price,
                       FExp(FMul(FNeg(put.risk_free_rate), put.time_to_maturity))), n_neg_d2),
             FMul(put.spot_price, n_neg_d1))

\* the Put arm of black_scholes_price
PutPrice(put) ==
    LET d1 == d_plus(put.time_to_maturity, put.risk_free_rate, put.dividend_yield,
                     put.volatility, put.spot_price, put.strike_price)
        d2 == d_minus(put.time_to_maturity, put.risk_free_rate, put.dividend_yield,
                      put.volatility, put.spot_price, put.strike_price)
        n_neg_d1 == FCdf(FNeg(d1))
        n_neg_d2 == FCdf(FNeg(d2))
    IN  FSub(FMul(FMul(put.strike_price,
                       FExp(FMul(FNeg(put.risk_free_rate), put.time_to_maturity))), n_neg_d2),
             FMul(FMul(put.spot_price,
                       FExp(FMul(FNeg(unwrap_or(put.dividend_yield, Zero(1))),
                                 put.time_to_maturity))), n_neg_d1))

\* option is a value of the enum Options: [tag |-> "Call" or "Put", c |-> the struct]
black_scholes_price(option) ==
    IF option.tag = "Call" THEN CallPrice(option.c)
    ELSE IF option.tag = "Put" THEN PutPrice(option.c)
    ELSE Zero(1)

(***************************************************************************)
(* options/src/lib.rs                                                      *)
(***************************************************************************)
Call_new(strike_price, spot_price, volatility, risk_free_rate, time_to_maturity, dividend_yield) ==
    [strike_price |-> strike_price, spot_price |-> spot_price,
     volatility |-> volatility, risk_free_rate |-> risk_free_rate,
     time_to_maturity |-> time_to_maturity, dividend_yield |-> dividend_yield]

Put_new(strike_price, spot_price, volatility, risk_free_rate, time_to_maturity, dividend_yield) ==
    [strike_price |-> strike_price, spot_price |-> spot_price,
     volatility |-> volatility, risk_free_rate |-> risk_free_rate,
     time_to_maturity |-> time_to_maturity, dividend_yield |-> dividend_yield]

Options_new_call(strike_price, spot_price, volatility, risk_free_rate, time_to_maturity, dividend_yield) ==
    [tag |-> "Call",
     c |-> Call_new(strike_price, spot_price, volatility, risk_free_rate,
                    time_to_maturity, dividend_yield)]

Options_new_put(strike_price, spot_price, volatility, risk_free_rate, time_to_maturity, dividend_yield) ==
    [tag |-> "Put",
     c |-> Put_new(strike_price, spot_price, volatility, risk_free_rate,
                   time_to_maturity, dividend_yield)]

Options_bs_pricing(self) == black_scholes_price(self)

Call_bs_pricing(self) == black_scholes_price([tag |-> "Call", c |-> self])

Put_bs_pricing(self) == black_scholes_price([tag |-> "Put", c |-> self])

\* the correction with 0 instead of 1 for an absent dividend yield
dividend_correction_absent_zero(self) ==
    IF self.dividend_yield = None THEN Zero(1)
    ELSE FExp(FMul(FNeg(self.dividend_yield[1]), self.time_to_maturity))

\* self.dividend_yield.map_or(1.0, |yield_val| (-yield_val * self.time_to_maturity).exp())
dividend_correction(self) ==
    IF self.dividend_yield = None THEN Fin(ONE)
    ELSE FExp(FMul(FNeg(self.dividend_yield[1]), self.time_to_maturity))

\* delta with d1 taken at the contract's own volatility
Call_delta_stored_vol(self, imply_vol, spot_price) ==
    LET d1 == d_plus(self.time_to_maturity, self.risk_free_rate, self.dividend_yield,
                     self.volatility, spot_price, self.strike_price)
    IN  FMul(FCdf(d1), dividend_correction(self))

Call_delta(self, imply_vol, spot_price) ==
    LET d1 == d_plus(self.time_to_maturity, self.risk_free_rate, self.dividend_yield,
                     imply_vol, spot_price, self.strike_price)
    IN  FMul(FCdf(d1), dividend_correction(self))

Call_theta(self, imply_vol, spot_price) ==
    LET d1 == d_plus(self.time_to_maturity, self.risk_free_rate, self.dividend_yield,
                     imply_vol, spot_price, self.strike_price)
        d2 == d_minus(self.time_to_maturity, self.risk_free_rate, self.dividend_yield,
                      imply_vol, spot_price, self.strike_price)
        n_d1 == FPdf(d1)
        n_d2 == FCdf(d2)
        dividend_npv ==
            IF self.dividend_yield = None THEN Zero(1)
            ELSE FMul(FMul(FMul(self.dividend_yield[1], self.spot_price),
                           dividend_correction(self)), FCdf(d1))
    IN  FSub(FAdd(FDiv(FNeg(FMul(FMul(FMul(spot_price, n_d1), imply_vol),
                                 dividend_correction(self))),
                       FMul(Fin(2 * ONE), FSqrt(self.time_to_maturity))),
                  dividend_npv),
             FMul(FMul(FMul(self.risk_free_rate, self.strike_price),
                       FExp(FMul(FNeg(self.risk_free_rate), self.time_to_maturity))),
                  n_d2))

Call_gamma(self, imply_vol, spot_price) ==
    LET d1 == d_plus(self.time_to_maturity, self.risk_free_rate, self.dividend_yield,
                     imply_vol, spot_price, self.strike_price)
    IN  FDiv(FMul(FPdf(d1), dividend_correction(self)),
             FMul(FMul(spot_price, imply_vol), FSqrt(self.time_to_maturity)))

Call_vega(self, spot_price) ==
    LET d1 == d_plus(self.time_to_maturity, self.risk_free_rate, self.dividend_yield,
                     self.volatility, spot_price, self.strike_price)
    IN  FMul(FMul(FMul(spot_price, FPdf(d1)), FSqrt(self.time_to_maturity)),
             dividend_correction(self))

\* rho discounting at the contract's own rate
Call_rho_stored_rate(self, imply_vol, spot_price, interest_rate) ==
    LET d2 == d_minus(self.time_to_maturity, interest_rate, self.dividend_yield,
                      imply_vol, spot_price, self.strike_price)
    IN  FMul(FMul(FMul(self.strike_price, self.time_to_maturity), FCdf(d2)),
             FExp(FMul(FNeg(self.risk_free_rate), self.time_to_maturity)))

Call_rho(self, imply_vol, spot_price, interest_rate) ==
    LET d2 == d_minus(self.time_to_maturity, interest_rate, self.dividend_yield,
                      imply_vol, spot_price, self.strike_price)
    IN  FMul(FMul(FMul(self.strike_price, self.time_to_maturity), FCdf(d2)),
             FExp(FMul(FNeg(interest_rate), self.time_to_maturity)))

\* put delta without the dividend correction
Put_delta_uncorrected(self, imply_vol, spot_price) ==
    LET d1 == d_plus(self.time_to_maturity, self.risk_free_rate, self.dividend_yield,
                     imply_vol, spot_price, self.strike_price)
    IN  FSub(FCdf(d1), Fin(ONE))

Put_delta(self, imply_vol, spot_price) ==
    LET d1 == d_plus(self.time_to_maturity, self.risk_free_rate, self.dividend_yield,
                     imply_vol, spot_price, self.strike_price)
    IN  FMul(FSub(FCdf(d1), Fin(ONE)), dividend_correction(self))

Put_theta(self, imply_vol, spot_price) ==
    LET d1 == d_plus(self.time_to_maturity, self.risk_free_rate, self.dividend_yield,
                     imply_vol, spot_price, self.strike_price)
        d2 == d_minus(self.time_to_maturity, self.risk_free_rate, self.dividend_yield,
                      imply_vol, spot_price, self.strike_price)
        n_d1 == FPdf(d1)
        n_d2 == FCdf(FNeg(d2))
        dividend_npv ==
            IF self.dividend_yield = None THEN Zero(1)
            ELSE FMul(FMul(FMul(self.dividend_yield[1], self.spot_price),
                           dividend_correction(self)), FCdf(FNeg(d1)))
    IN  FAdd(FSub(FDiv(FNeg(FMul(FMul(FMul(spot_price, n_d1), imply_vol),
                                 dividend_correction(self))),
                       FMul(Fin(2 * ONE), FSqrt(self.time_to_maturity))),
                  dividend_npv),
             FMul(FMul(FMul(self.risk_free_rate, self.strike_price),
                       FExp(FMul(FNeg(self.risk_free_rate), self.time_to_maturity))),
                  n_d2))

\* gamma without the dividend correction e^(-qT)
Put_gamma_uncorrected(self, imply_vol, spot_price) ==
    LET d1 == d_plus(self.time_to_maturity, self.risk_free_rate, self.dividend_yield,
                     imply_vol, spot_price, self.strike_price)
    IN  FDiv(FPdf(d1), FMul(FMul(spot_price, imply_vol), FSqrt(self.time_to_maturity)))

Put_gamma(self, imply_vol, spot_price) ==
    LET d1 == d_plus(self.time_to_maturity, self.risk_free_rate, self.dividend_yield,
                     imply_vol, spot_price, self.strike_price)
    IN  FDiv(FMul(FPdf(d1), dividend_correction(self)),
             FMul(FMul(spot_price, imply_vol), FSqrt(self.time_to_maturity)))

Put_vega(self, spot_price) ==
    LET d1 == d_plus(self.time_to_maturity, self.risk_free_rate, self.dividend_yield,
                     self.volatility, spot_price, self.strike_price)
    IN  FMul(FMul(FMul(spot_price, FPdf(d1)), FSqrt(self.time_to_maturity)),
             dividend_correction(self))

Put_rho(self, imply_vol, spot_price, interest_rate) ==
    LET d2 == d_minus(self.time_to_maturity, interest_rate, self.dividend_yield,
                      imply_vol, spot_price, self.strike_price)
    IN  FMul(FMul(FMul(FNeg(self.strike_price), self.time_to_maturity), FCdf(FNeg(d2))),
             FExp(FMul(FNeg(interest_rate), self.time_to_maturity)))


(***************************************************************************)
(* options/src/exotics.rs                                                  *)
(***************************************************************************)
\* f64 as u32: truncates toward zero, NaN and negative values give 0
F64ToU32(x) ==
    CASE IsNaN(x) -> 0
      [] x.k = "tiny" -> 0
      [] x.k = "fin" -> IF x.s = -1 THEN 0 ELSE x.v \div ONE
      [] x.k = "inf" /\ x.s = -1 -> 0

RECURSIVE npv_loop_exclusive(_, _, _, _, _, _)
\* the loop over 1..periods, which leaves the last period out
npv_loop_exclusive(self, i, periods, coupon_payment, npv, discounter) ==
    IF i >= periods THEN [npv |-> npv, discounter |-> discounter, iterations |-> i - 1]
    ELSE LET d == FMul(discounter,
                       FAdd(Fin(ONE),
                            FDiv(FAdd(self.risk_free_rate, self.credit_spread),
                                 U32ToF64(self.payment_frequency))))
         IN  npv_loop_exclusive(self, i + 1, periods, coupon_payment,
                                FAdd(npv, FDiv(coupon_payment, d)), d)

RECURSIVE npv_loop(_, _, _, _, _, _)
\* the body of `for _ in 1..=periods`, from iteration i on
npv_loop(self, i, periods, coupon_payment, npv, discounter) ==
    IF i > periods THEN [npv |-> npv, discounter |-> discounter, iterations |-> i - 1]
    ELSE LET d == FMul(discounter,
                       FAdd(Fin(ONE),
                            FDiv(FAdd(self.risk_free_rate, self.credit_spread),
                                 U32ToF64(self.payment_frequency))))
         IN  npv_loop(self, i + 1, periods, coupon_payment,
                      FAdd(npv, FDiv(coupon_payment, d)), d)

\* the state of npv() when its loop is left
npv_run(self) ==
    LET periods == F64ToU32(FMul(self.maturity, U32ToF64(self.payment_frequency)))
        coupon_payment == FDiv(FMul(self.face_value, self.coupon_rate),
                               U32ToF64(self.payment_frequency))
    IN  npv_loop(self, 1, periods, coupon_payment, Zero(1), Fin(ONE))

\* npv with the face value added undiscounted
ConvertibleBond_npv_face_undiscounted(self) ==
    LET run == npv_run(self)
    IN  FAdd(run.npv, self.face_value)

ConvertibleBond_npv(self) ==
    LET run == npv_run(self)
    IN  FAdd(run.npv, FDiv(self.face_value, run.discounter))

\* the option leg running to the bond's maturity instead of time_to_maturity
ConvertibleBond_conversion_option_price_to_maturity(self) ==
    LET underlying_call ==
            [strike_price |-> self.conversion_price, spot_price |-> self.stock_price,
             volatility |-> self.volatility, risk_free_rate |-> self.risk_free_rate,
             time_to_maturity |-> self.maturity,
             dividend_yield |-> self.dividend_yield]
    IN  Call_bs_pricing(underlying_call)

ConvertibleBond_conversion_option_price(self) ==
    LET underlying_call ==
            [strike_price |-> self.conversion_price, spot_price |-> self.stock_price,
             volatility |-> self.volatility, risk_free_rate |-> self.risk_free_rate,
             time_to_maturity |-> self.time_to_maturity,
             dividend_yield |-> self.dividend_yield]
    IN  Call_bs_pricing(underlying_call)

ConvertibleBond_bs_pricing(self) ==
    FAdd(ConvertibleBond_npv(self),
         FMul(FDiv(self.face_value, self.conversion_price),
              ConvertibleBond_conversion_option_price(self)))

(***************************************************************************)
(* A caller holding an Options value calls the method of the struct in it. *)
(***************************************************************************)
delta(o, imply_vol, spot_price) ==
    IF o.tag = "Call" THEN Call_delta(o.c, imply_vol, spot_price)
    ELSE Put_delta(o.c, imply_vol, spot_price)

gamma(o, imply_vol, spot_price) ==
    IF o.tag = "Call" THEN Call_gamma(o.c, imply_vol, spot_price)
    ELSE Put_gamma(o.c, imply_vol, spot_price)

vega(o, spot_price) ==
    IF o.tag = "Call" THEN Call_vega(o.c, spot_price)
    ELSE Put_vega(o.c, spot_price)

theta(o, imply_vol, spot_price) ==
    IF o.tag = "Call" THEN Call_theta(o.c, imply_vol, spot_price)
    ELSE Put_theta(o.c, imply_vol, spot_price)

rho(o, imply_vol, spot_price, interest_rate) ==
    IF o.tag = "Call" THEN Call_rho(o.c, imply_vol, spot_price, interest_rate)
    ELSE Put_rho(o.c, imply_vol, spot_price, interest_rate)

\* the call recorded in r, made on the contract o
Invoke(o, r) ==
    CASE r.op = "bs_pricing" -> Options_bs_pricing(o)
      [] r.op = "delta" -> delta(o, r.imply_vol, r.spot_price)
      [] r.op = "gamma" -> gamma(o, r.imply_vol, r.spot_price)
      [] r.op = "vega" -> vega(o, r.spot_price)
      [] r.op = "theta" -> theta(o, r.imply_vol, r.spot_price)
      [] r.op = "rho" -> rho(o, r.imply_vol, r.spot_price, r.interest_rate)

(***************************************************************************)
(* The inputs: each field ranges over the first N.. entries of a list of    *)
(* representative values (in millionths; the valid ones first).            *)
(***************************************************************************)
NStrike == 2

NSpot == 2

NVol == 3

NRate == 2

NTime == 2

NDividend == 3

NConversion == 2

NFrequency == 3

NMaturity == 4

NCoupon == 2

NThreads == 2

Prefix(seq, n) == {seq[i] : i \in 1..Min(n, Len(seq))}

StrikeValues == Prefix(<<Fin(100 * ONE), Zero(1), Fin(50 * ONE), Fin(-100 * ONE)>>, NStrike)

SpotValues == Prefix(<<Fin(100 * ONE), Fin(200 * ONE), Zero(1), Fin(-100 * ONE)>>, NSpot)

VolValues == Prefix(<<Fin(200000), Fin(10000), Zero(1), Fin(-200000)>>, NVol)

RateValues == Prefix(<<Fin(50000), Fin(30000), Fin(-10000)>>, NRate)

TimeValues == Prefix(<<Fin(ONE), Zero(1), Fin(250000), Fin(-ONE)>>, NTime)

DividendValues ==
    Prefix(<<None, Some(Zero(1)), Some(Fin(30000)), Some(Fin(-20000))>>, NDividend)

ConversionValues == Prefix(<<Fin(50 * ONE), Zero(1), Fin(-50 * ONE)>>, NConversion)

FrequencyValues == Prefix(<<2, 1, 0>>, NFrequency)

MaturityValues ==
    Prefix(<<Fin(5 * ONE), Fin(1500000), Zero(1), Fin(-ONE), NaN, Fin(2 * ONE)>>, NMaturity)

CouponValues == Prefix(<<Fin(50000), Fin(40000), Fin(60000)>>, NCoupon)

\* the market states the callers ask the Greeks at: the valid ones
ImplyVolArgs == {v \in VolValues : FLt(Zero(1), v)}

SpotArgs == {sp \in SpotValues : FLt(Zero(1), sp)}

\* the values of the enum Options the callers build
AllOptions ==
    {Options_new_call(k, s, v, r, t, q) :
        k \in StrikeValues, s \in SpotValues, v \in VolValues, r \in RateValues,
        t \in TimeValues, q \in DividendValues}
    \cup
    {Options_new_put(k, s, v, r, t, q) :
        k \in StrikeValues, s \in SpotValues, v \in VolValues, r \in RateValues,
        t \in TimeValues, q \in DividendValues}

\* the bond of test_convertible_bond_pricing, with its coupon rate and the
\* fields the validation is about varied
AllBonds ==
    {[face_value |-> Fin(1000 * ONE), coupon_rate |-> cr, maturity |-> m,
      payment_frequency |-> f, credit_spread |-> Fin(20000),
      conversion_price |-> cp, stock_price |-> Fin(55 * ONE),
      volatility |-> Fin(200000), time_to_maturity |-> Fin(5 * ONE),
      risk_free_rate |-> Fin(30000), dividend_yield |-> q] :
        cr \in CouponValues, m \in MaturityValues, f \in FrequencyValues,
        cp \in ConversionValues, q \in DividendValues}

(***************************************************************************)
(* The state: the instrument a caller holds (an Options value or a         *)
(* ConvertibleBond; NoValue for the one it does not hold) and the call it  *)
(* last made on it with the value that call returned.                      *)
(***************************************************************************)
VARIABLES option, bond, ret, thr

vars == <<option, bond, ret, thr>>

NoValue == [tag |-> "NoValue"]

Idle == [op |-> "none"]

\* no concurrent callers
NoThreads == << >>

Init ==
    /\ ret = Idle
    /\ thr = NoThreads
    /\ \/ option \in AllOptions /\ bond = NoValue
       \/ option = NoValue /\ bond \in AllBonds

BsPricing ==
    /\ ret = Idle
    /\ option # NoValue
    /\ ret' = [op |-> "bs_pricing", val |-> Options_bs_pricing(option)]
    /\ UNCHANGED <<option, bond, thr>>

Delta(imply_vol, spot_price) ==
    /\ ret = Idle
    /\ option # NoValue
    /\ ret' = [op |-> "delta", imply_vol |-> imply_vol, spot_price |-> spot_price,
               val |-> delta(option, imply_vol, spot_price)]
    /\ UNCHANGED <<option, bond, thr>>

Gamma(imply_vol, spot_price) ==
    /\ ret = Idle
    /\ option # NoValue
    /\ ret' = [op |-> "gamma", imply_vol |-> imply_vol, spot_price |-> spot_price,
               val |-> gamma(option, imply_vol, spot_price)]
    /\ UNCHANGED <<option, bond, thr>>

Vega(spot_price) ==
    /\ ret = Idle
    /\ option # NoValue
    /\ ret' = [op |-> "vega", spot_price |-> spot_price,
               val |-> vega(option, spot_price)]
    /\ UNCHANGED <<option, bond, thr>>

Theta(imply_vol, spot_price) ==
    /\ ret = Idle
    /\ option # NoValue
    /\ ret' = [op |-> "theta", imply_vol |-> imply_vol, spot_price |-> spot_price,
               val |-> theta(option, imply_vol, spot_price)]
    /\ UNCHANGED <<option, bond, thr>>

Rho(imply_vol, spot_price, interest_rate) ==
    /\ ret = Idle
    /\ option # NoValue
    /\ ret' = [op |-> "rho", imply_vol |-> imply_vol, spot_price |-> spot_price,
               interest_rate |-> interest_rate,
               val |-> rho(option, imply_vol, spot_price, interest_rate)]
    /\ UNCHANGED <<option, bond, thr>>

BondPricing ==
    /\ ret = Idle
    /\ bond # NoValue
    /\ ret' = [op |-> "bond_bs_pricing", val |-> ConvertibleBond_bs_pricing(bond),
               npv |-> ConvertibleBond_npv(bond),
               iterations |-> npv_run(bond).iterations]
    /\ UNCHANGED <<option, bond, thr>>

\* the caller is done with the returned value
Return ==
    /\ ret # Idle
    /\ ret' = Idle
    /\ UNCHANGED <<option, bond, thr>>

Next ==
    \/ BsPricing
    \/ \E iv \in ImplyVolArgs, sp \in SpotArgs : Delta(iv, sp)
    \/ \E iv \in ImplyVolArgs, sp \in SpotArgs : Gamma(iv, sp)
    \/ \E sp \in SpotArgs : Vega(sp)
    \/ \E iv \in ImplyVolArgs, sp \in SpotArgs : Theta(iv, sp)
    \/ \E iv \in ImplyVolArgs, sp \in SpotArgs, ir \in RateValues : Rho(iv, sp, ir)
    \/ BondPricing
    \/ Return

Spec == Init /\ [][Next]_vars

(***************************************************************************)
(* Concurrent callers.  The methods take &self and the structs hold plain  *)
(* f64 and u32 fields, so several threads may call into the same Options   *)
(* value and the same ConvertibleBond at once.  thr[t] is the invocation   *)
(* thread t is in: its position, its arguments and the locals of its stack *)
(* frame (periods, coupon_payment, npv, discounter and the loop counter of *)
(* ConvertibleBond::npv).  Each step reads the fields as they are then.    *)
(***************************************************************************)
Threads == 1..NThreads

\* the arguments of test_greeks
TestVol == Fin(200000)

TestSpot == Fin(100 * ONE)

TestRate == Fin(50000)

OptionOps == {"bs_pricing", "delta", "gamma", "vega", "theta", "rho"}

\* the call and the put of test_greeks
ConcOptions ==
    {Options_new_call(Fin(100 * ONE), Fin(100 * ONE), Fin(200000), Fin(50000), Fin(ONE), None),
     Options_new_put(Fin(100 * ONE), Fin(100 * ONE), Fin(200000), Fin(50000), Fin(ONE), None)}

\* the bond of test_convertible_bond_pricing (semiannual coupons) with the
\* shorter maturities, so that the loop of npv() runs three times or not at all
ConcBonds ==
    {b \in AllBonds :
        /\ b.payment_frequency = 2 /\ b.maturity # Fin(5 * ONE)
        /\ FLt(Zero(1), b.conversion_price)
        /\ b.coupon_rate = Fin(50000) /\ b.dividend_yield = None}

IdleThread ==
    [pc |-> "idle", op |-> "none", imply_vol |-> Zero(1), spot_price |-> Zero(1),
     interest_rate |-> Zero(1), periods |-> 0, coupon_payment |-> Zero(1), i |-> 0,
     npv |-> Zero(1), discounter |-> Zero(1), val |-> Zero(1)]

ConcInit ==
    /\ option \in ConcOptions
    /\ bond \in ConcBonds
    /\ ret = Idle
    /\ thr = [t \in Threads |-> IdleThread]

\* thread t calls a method of the option
CallOption(t, op) ==
    /\ thr[t].pc = "idle"
    /\ thr' = [thr EXCEPT ![t] = [IdleThread EXCEPT !.pc = "in_option", !.op = op,
                                     !.imply_vol = TestVol, !.spot_price = TestSpot,
                                     !.interest_rate = TestRate]]
    /\ UNCHANGED <<option, bond, ret>>

\* the method computes its value from the fields and returns
ReturnOption(t) ==
    /\ thr[t].pc = "in_option"
    /\ thr' = [thr EXCEPT ![t].pc = "done", ![t].val = Invoke(option, thr[t])]
    /\ UNCHANGED <<option, bond, ret>>

\* thread t calls bs_pricing of the bond, which enters npv()
CallBond(t) ==
    /\ thr[t].pc = "idle"
    /\ thr' = [thr EXCEPT ![t] =
                 [IdleThread EXCEPT
                    !.pc = "npv_loop", !.op = "bond_bs_pricing",
                    !.periods = F64ToU32(FMul(bond.maturity, U32ToF64(bond.payment_frequency))),
                    !.coupon_payment = FDiv(FMul(bond.face_value, bond.coupon_rate),
                                            U32ToF64(bond.payment_frequency)),
                    !.npv = Zero(1), !.discounter = Fin(ONE), !.i = 1]]
    /\ UNCHANGED <<option, bond, ret>>

\* one iteration of the loop, with the accumulators in one place for all threads
NpvIterate_shared_accumulators(t) ==
    /\ thr[t].pc = "npv_loop"
    /\ thr[t].i <= thr[t].periods
    /\ LET d == FMul(thr[1].discounter,
                     FAdd(Fin(ONE),
                          FDiv(FAdd(bond.risk_free_rate, bond.credit_spread),
                               U32ToF64(bond.payment_frequency))))
           n == FAdd(thr[1].npv, FDiv(thr[t].coupon_payment, d))
       IN  thr' = [u \in Threads |->
                     [thr[u] EXCEPT !.discounter = IF u = 1 THEN d ELSE @,
                                    !.npv = IF u = 1 THEN n ELSE @,
                                    !.i = IF u = t THEN @ + 1 ELSE @]]
    /\ UNCHANGED <<option, bond, ret>>

\* one iteration of `for _ in 1..=periods`
NpvIterate(t) ==
    /\ thr[t].pc = "npv_loop"
    /\ thr[t].i <= thr[t].periods
    /\ LET d == FMul(thr[t].discounter,
                     FAdd(Fin(ONE),
                          FDiv(FAdd(bond.risk_free_rate, bond.credit_spread),
                               U32ToF64(bond.payment_frequency))))
       IN  thr' = [thr EXCEPT ![t].discounter = d,
                              ![t].npv = FAdd(thr[t].npv, FDiv(thr[t].coupon_payment, d)),
                              ![t].i = @ + 1]
    /\ UNCHANGED <<option, bond, ret>>

\* the loop is left: npv += face_value / discounter, and npv() returns
NpvLeave(t) ==
    /\ thr[t].pc = "npv_loop"
    /\ thr[t].i > thr[t].periods
    /\ thr' = [thr EXCEPT ![t].pc = "option_leg",
                           ![t].npv = FAdd(thr[t].npv,
                                           FDiv(bond.face_value, thr[t].discounter))]
    /\ UNCHANGED <<option, bond, ret>>

\* npv + face_value / conversion_price * conversion_option_price()
ReturnBond(t) ==
    /\ thr[t].pc = "option_leg"
    /\ thr' = [thr EXCEPT ![t].pc = "done",
                           ![t].val = FAdd(thr[t].npv,
                                           FMul(FDiv(bond.face_value, bond.conversion_price),
                                                ConvertibleBond_conversion_option_price(bond)))]
    /\ UNCHANGED <<option, bond, ret>>

\* the caller takes the returned value; its frame is gone
Collect(t) ==
    /\ thr[t].pc = "done"
    /\ thr' = [thr EXCEPT ![t] = IdleThread]
    /\ UNCHANGED <<option, bond, ret>>

ConcNext ==
    \E t \in Threads :
        \/ \E op \in OptionOps : CallOption(t, op)
        \/ ReturnOption(t)
        \/ CallBond(t)
        \/ NpvIterate(t)
        \/ NpvLeave(t)
        \/ ReturnBond(t)
        \/ Collect(t)

SpecConc == ConcInit /\ [][ConcNext]_vars


(***************************************************************************)
(* The properties.                                                         *)
(***************************************************************************)
Positive(x) == FLt(Zero(1), x)

FAbs(x) == IF IsNaN(x) THEN x ELSE [x EXCEPT !.s = 1]

\* the invariants of section 3 on a Call or Put
ValidOption(c) ==
    /\ Positive(c.strike_price)
    /\ Positive(c.spot_price)
    /\ Positive(c.volatility)
    /\ Positive(c.time_to_maturity)

Priced == ret.op = "bs_pricing"

BondPriced == ret.op = "bond_bs_pricing"

\* C1: a Call or Put with a non-positive strike_price, spot_price, volatility
\* or time_to_maturity is rejected before any formula is evaluated: no such
\* contract is ever priced.
C1_InvalidOptionNeverPriced == Priced => ValidOption(option.c)

\* an otherwise valid bond: at least one coupon period
HasCouponPeriods(b) == b.payment_frequency >= 1 /\ Positive(b.maturity)

\* C2: bs_pricing on a bond with conversion_price = 0 (and at least one coupon
\* period) is rejected: it returns no price, in particular no infinite or NaN
\* one.
C2_ZeroConversionPriceRejected ==
    ~(BondPriced /\ IsZero(bond.conversion_price) /\ HasCouponPeriods(bond))

\* C3: bs_pricing on a bond with payment_frequency = 0 or maturity <= 0 (and a
\* positive conversion_price) is rejected: it returns no price computed from
\* zero coupon periods.
C3_NoCouponPeriodsRejected ==
    ~(BondPriced /\ Positive(bond.conversion_price) /\ ~HasCouponPeriods(bond))

\* C4: every pricing call (of a Call, a Put or a ConvertibleBond) returns a
\* finite value or fails, also when volatility = 0 or time_to_maturity = 0;
\* it never returns NaN or an infinity.
C4_PriceIsFinite == (Priced \/ BondPriced) => IsFinite(ret.val)

\* S * e^(-qT) - K * e^(-rT), the right-hand side of put-call parity
ParityGap(c) ==
    FSub(FMul(c.spot_price,
              FExp(FMul(FNeg(unwrap_or(c.dividend_yield, Zero(1))), c.time_to_maturity))),
         FMul(c.strike_price, FExp(FMul(FNeg(c.risk_free_rate), c.time_to_maturity))))

\* C5: for every valid (K, S, sigma, r, T, q) the price of the Call minus the
\* price of the Put with the same fields equals S*e^(-qT) - K*e^(-rT) within
\* 1e-4 (100 millionths).
C5_PutCallParity ==
    (Priced /\ option.tag = "Call" /\ ValidOption(option.c)) =>
        FLe(FAbs(FSub(FSub(ret.val, Put_bs_pricing(option.c)), ParityGap(option.c))),
            Fin(100))

C5_Witness ==
    /\ Priced
    /\ option.tag = "Call"
    /\ ValidOption(option.c)
    /\ option.c.dividend_yield = Some(Fin(30000))
    /\ Positive(ret.val)
    /\ Positive(Put_bs_pricing(option.c))
    /\ ret.val # Put_bs_pricing(option.c)

\* the contract with the stored volatility and spot_price replaced
WithMarket(o, volatility, spot_price) ==
    [o EXCEPT !.c.volatility = volatility, !.c.spot_price = spot_price]

\* C6: vega of a valid contract does not depend on the contract's own stored
\* volatility: the contracts that differ from this one only in their (valid)
\* stored volatility return the same vega for the same arguments.
C6_VegaIgnoresStoredVolatility ==
    (ret.op = "vega" /\ ValidOption(option.c)) =>
        \A v \in VolValues :
            Positive(v) =>
                vega(WithMarket(option, v, option.c.spot_price), ret.spot_price) = ret.val

\* C7: every S of theta, the S of the dividend term included, is the
\* caller-supplied spot_price: the valid contracts that differ from this one
\* only in their stored spot_price return the same theta for the same arguments.
C7_ThetaIgnoresStoredSpot ==
    (ret.op = "theta" /\ ValidOption(option.c)) =>
        \A s \in SpotValues :
            Positive(s) =>
                theta(WithMarket(option, option.c.volatility, s),
                      ret.imply_vol, ret.spot_price) = ret.val

\* C8: delta and gamma depend on volatility and spot only through the
\* arguments: the call returns what it returns on the contract whose stored
\* volatility and spot_price are the supplied ones, so any two contracts that
\* differ only in these stored fields return the same delta and the same gamma.
C8_DeltaGammaIgnoreStoredMarket ==
    /\ ret.op = "delta" =>
          ret.val = delta(WithMarket(option, ret.imply_vol, ret.spot_price),
                          ret.imply_vol, ret.spot_price)
    /\ ret.op = "gamma" =>
          ret.val = gamma(WithMarket(option, ret.imply_vol, ret.spot_price),
                          ret.imply_vol, ret.spot_price)

C8_Witness ==
    /\ ret.op = "delta"
    /\ ValidOption(option.c)
    /\ option.c.volatility # ret.imply_vol
    /\ option.c.spot_price # ret.spot_price
    /\ Positive(FAbs(ret.val))
    /\ FLt(FAbs(ret.val), Fin(ONE))

\* C9: rho uses the supplied interest_rate everywhere, in the discount factor
\* and in d2: the call returns what it returns on the contract whose stored
\* risk_free_rate is the supplied rate, so any two contracts that differ only
\* in their stored rate return the same rho.
C9_RhoUsesSuppliedRate ==
    ret.op = "rho" =>
        ret.val = rho([option EXCEPT !.c.risk_free_rate = ret.interest_rate],
                      ret.imply_vol, ret.spot_price, ret.interest_rate)

C9_Witness ==
    /\ ret.op = "rho"
    /\ ValidOption(option.c)
    /\ option.c.risk_free_rate # ret.interest_rate
    /\ Positive(FAbs(ret.val))

\* call delta minus put delta of the same contract, less e^(-qT), in magnitude
DeltaGap ==
    FAbs(FSub(FSub(Call_delta(option.c, ret.imply_vol, ret.spot_price),
                   Put_delta(option.c, ret.imply_vol, ret.spot_price)),
              dividend_correction(option.c)))

\* C10 as stated: for every valid contract and valid arguments Call::delta lies
\* strictly in (0,1), Put::delta strictly in (-1,0), and call delta minus put
\* delta equals e^(-qT).
C10_DeltaStrictlyInside ==
    (ret.op = "delta" /\ ValidOption(option.c)) =>
        /\ option.tag = "Call" => Positive(ret.val) /\ FLt(ret.val, Fin(ONE))
        /\ option.tag = "Put" => FLt(Fin(-ONE), ret.val) /\ FLt(ret.val, Zero(1))
        /\ FLe(DeltaGap, Fin(2))

\* C10 amended: Call::delta lies in [0, e^(-qT)] and Put::delta in
\* [-e^(-qT), 0], the end points included, and call delta minus put delta
\* equals e^(-qT) up to rounding (2 millionths).
C10_DeltaWithinBounds ==
    (ret.op = "delta" /\ ValidOption(option.c)) =>
        /\ option.tag = "Call" =>
              FLe(Zero(1), ret.val) /\ FLe(ret.val, dividend_correction(option.c))
        /\ option.tag = "Put" =>
              FLe(FNeg(dividend_correction(option.c)), ret.val) /\ FLe(ret.val, Zero(1))
        /\ FLe(DeltaGap, Fin(2))

C10_Witness ==
    /\ ret.op = "delta"
    /\ ValidOption(option.c)
    /\ option.tag = "Call"
    /\ ret.val = Fin(ONE)

\* the same Greek on the Call and on the Put with the fields of the contract
CallPutAgree ==
    /\ ret.op = "gamma" =>
          Call_gamma(option.c, ret.imply_vol, ret.spot_price)
              = Put_gamma(option.c, ret.imply_vol, ret.spot_price)
    /\ ret.op = "vega" =>
          Call_vega(option.c, ret.spot_price) = Put_vega(option.c, ret.spot_price)

ValidBond(b) == HasCouponPeriods(b) /\ Positive(b.conversion_price)

\* the per-period rate i = (risk_free_rate + credit_spread) / payment_frequency
PeriodRate(b) ==
    FDiv(FAdd(b.risk_free_rate, b.credit_spread), U32ToF64(b.payment_frequency))

\* the coupon c = face_value * coupon_rate / payment_frequency
Coupon(b) == FDiv(FMul(b.face_value, b.coupon_rate), U32ToF64(b.payment_frequency))

RECURSIVE Pow(_, _)
Pow(x, k) == IF k = 0 THEN Fin(ONE) ELSE FMul(Pow(x, k - 1), x)

RECURSIVE CouponSum(_, _)
\* the sum over k = 1..n of c / (1+i)^k
CouponSum(b, n) ==
    IF n = 0 THEN Zero(1)
    ELSE FAdd(CouponSum(b, n - 1), FDiv(Coupon(b), Pow(FAdd(Fin(ONE), PeriodRate(b)), n)))

\* the present value of n coupons and of the face value paid after n periods
AnnuityValue(b, n) ==
    FAdd(CouponSum(b, n), FDiv(b.face_value, Pow(FAdd(Fin(ONE), PeriodRate(b)), n)))

\* C12: npv of a (valid) bond is the sum over k = 1..periods of c / (1+i)^k plus
\* face_value / (1+i)^periods with periods = maturity * payment_frequency: the
\* number of coupons discounted is exactly maturity * payment_frequency and the
\* value is that of the annuity plus the principal, within 1e-4.
C12_NpvIsAnnuityToMaturity ==
    (BondPriced /\ ValidBond(bond)) =>
        /\ U32ToF64(ret.iterations)
               = FMul(bond.maturity, U32ToF64(bond.payment_frequency))
        /\ FLe(FAbs(FSub(ret.npv, AnnuityValue(bond, ret.iterations))), Fin(100))

\* the part of C12 the code satisfies: the value of the coupons the loop ran for
C12_NpvIsAnnuityOfIterations ==
    (BondPriced /\ ValidBond(bond)) =>
        FLe(FAbs(FSub(ret.npv, AnnuityValue(bond, ret.iterations))), Fin(100))

\* the Black-Scholes price of the call on the bond's stock struck at the
\* conversion price, built and priced through the public interface
ConversionCallPrice(b) ==
    Options_bs_pricing(Options_new_call(b.conversion_price, b.stock_price, b.volatility,
                                        b.risk_free_rate, b.time_to_maturity,
                                        b.dividend_yield))

\* C13: bs_pricing of a bond returns npv + (face_value / conversion_price) *
\* call_price, call_price being the Black-Scholes price of the Call with strike
\* conversion_price, spot stock_price and the bond's volatility, risk_free_rate
\* (without credit_spread), time_to_maturity (not maturity) and dividend_yield.
C13_BondPriceIsNpvPlusConversion ==
    BondPriced =>
        ret.val = FAdd(ret.npv,
                       FMul(FDiv(bond.face_value, bond.conversion_price),
                            ConversionCallPrice(bond)))

C13_Witness ==
    /\ BondPriced
    /\ ValidBond(bond)
    /\ bond.maturity # bond.time_to_maturity
    /\ Positive(ConversionCallPrice(bond))
    /\ FLt(ret.npv, ret.val)
    /\ IsFinite(ret.val)

OptionCalled == ret.op \in {"bs_pricing", "delta", "gamma", "vega", "theta", "rho"}

\* C14: for every operation, a contract with dividend_yield absent (None)
\* returns what the otherwise identical contract with dividend_yield = Some(0)
\* returns for the same arguments.
C14_AbsentYieldIsZeroYield ==
    (OptionCalled /\ option.c.dividend_yield = None) =>
        ret.val = Invoke([option EXCEPT !.c.dividend_yield = Some(Zero(1))], ret)

C14_Witness ==
    /\ ret.op = "theta"
    /\ option.c.dividend_yield = None
    /\ ValidOption(option.c)
    /\ IsFinite(ret.val)
    /\ Positive(FAbs(ret.val))
    /\ ret.val # Invoke([option EXCEPT !.c.dividend_yield = Some(Fin(30000))], ret)

\* what the invocation recorded in r returns when it runs alone
Alone(o, b, r) ==
    IF r.op = "bond_bs_pricing" THEN ConvertibleBond_bs_pricing(b) ELSE Invoke(o, r)

\* C15: under any interleaving of concurrent pricing and Greek invocations on
\* the same option and bond, no step changes a field of the Call, Put or
\* ConvertibleBond, and every invocation that returns, returns the value it
\* returns when it runs alone with the same inputs.
C15_ConcurrentCallsDoNotInteract ==
    [][/\ option' = option
       /\ bond' = bond
       /\ \A t \in Threads :
             (thr[t].pc # "done" /\ thr'[t].pc = "done") =>
                 thr'[t].val = Alone(option', bond', thr'[t])]_vars

\* a bs_pricing of the bond has returned while another thread is inside the
\* loop of npv() on the same bond
C15_Witness ==
    \E t, u \in Threads :
        /\ t # u
        /\ thr[t].pc = "done" /\ thr[t].op = "bond_bs_pricing"
        /\ IsFinite(thr[t].val) /\ Positive(thr[t].val)
        /\ thr[u].pc = "npv_loop" /\ thr[u].i > 1 /\ thr[u].i <= thr[u].periods

MaxPeriods == 16

\* maturity * payment_frequency truncated toward zero, 0 when it is negative
\* or NaN: the n with n <= maturity * payment_frequency < n + 1
TruncatedPeriods(b) ==
    LET p == FMul(b.maturity, U32ToF64(b.payment_frequency))
    IN  IF IsNaN(p) \/ FLt(p, Zero(1)) THEN 0
        ELSE CHOOSE n \in 0..MaxPeriods : FLe(Fin(n * ONE), p) /\ FLt(p, Fin((n + 1) * ONE))

ParBond(b) ==
    /\ b.payment_frequency >= 1
    /\ TruncatedPeriods(b) >= 1
    /\ FMul(b.maturity, U32ToF64(b.payment_frequency)) = Fin(TruncatedPeriods(b) * ONE)
    /\ b.coupon_rate = FAdd(b.risk_free_rate, b.credit_spread)

\* C17: for every par bond npv equals face_value, and bs_pricing equals
\* face_value + (face_value / conversion_price) * call_price, both within 0.01
\* (the truncation of the fixed-point products and quotients over up to ten
\* periods of a face value of 1000 stays below that; the test asserts 0.1).
C17_ParBondNpvIsFaceValue ==
    (BondPriced /\ ParBond(bond) /\ Positive(bond.conversion_price)) =>
        /\ FLe(FAbs(FSub(ret.npv, bond.face_value)), Fin(10000))
        /\ FLe(FAbs(FSub(ret.val,
                         FAdd(bond.face_value,
                              FMul(FDiv(bond.face_value, bond.conversion_price),
                                   ConversionCallPrice(bond))))),
               Fin(10000))

\* the bond of test_convertible_bond_pricing: ten periods, a price within 0.1
\* of 1318
C17_Witness ==
    /\ BondPriced
    /\ ParBond(bond)
    /\ bond.maturity = Fin(5 * ONE)
    /\ bond.payment_frequency = 2
    /\ bond.conversion_price = Fin(50 * ONE)
    /\ bond.dividend_yield = None
    /\ ret.iterations = 10
    /\ FLe(FAbs(FSub(ret.val, Fin(1318 * ONE))), Fin(100000))

=============================================================================
